---- MODULE Spec2Model ----
(***************************************************************************)
(* dc.js sunburst chart: hierarchy builder (toHierarchy), ring-size        *)
(* policies, the draw cycle (_drawChart / _partitionNodes) and the         *)
(* click/toggle filter reconciliation (onClick); the chart registry        *)
(* (ChartRegistry) and the number tests of core/utils.                     *)
(*                                                                         *)
(* Every handler runs to completion on the calling thread, so each handler *)
(* is one action.  A handler that ends by throwing keeps the assignments   *)
(* it made before the throw; the error is recorded in last.thrown.         *)
(***************************************************************************)
EXTENDS Integers, Sequences, FiniteSets, TLC

VARIABLES
    filters,             \* this.filters(): the ordered active HierarchyFilters
    _g,                  \* class attribute of this._g, or "undefined" before render
    data,                \* this.data(): the records of the data provider
    _conf,               \* the chart configuration (ringSizes, radius, ...)
    _computedRadius,     \* private field, a rational or Undefined
    _rootOffset,         \* private field, a rational or Undefined
    _relativeRingSizes,  \* private field, a sequence of portions or Undefined
    slices,              \* the partitioned nodes bound to the g.pie-slice elements
    last,                \* what the most recent handler did (observations only)
    _chartMap,           \* chartRegistry._chartMap: own properties, name -> ChartGroup
    _charts,             \* the ChartGroup objects ever created: _charts[id] = its charts
    call                 \* the most recent registry or utils call and what it returned

vars ==
    <<filters, _g, data, _conf, _computedRadius, _rootOffset, _relativeRingSizes, slices,
      last, _chartMap, _charts, call>>

\* The fields of the chart, and the registry with the record of the calls.
chart ==
    <<filters, _g, data, _conf, _computedRadius, _rootOffset, _relativeRingSizes, slices,
      last>>
registry == <<_chartMap, _charts, call>>

(***************************************************************************)
(* Bounds and value domains                                                *)
(***************************************************************************)
\* Most filters the programmatic filter API and the clicks may accumulate.
MaxFilters == 3

\* Most records of the collections the hierarchy builder is run on.
MaxRecords == 2

\* The key paths that are clicked and filtered: a node, two of its children
\* and a grandchild.
Paths ==
    { <<"A">>, <<"A", "B">>, <<"A", "C">>, <<"A", "B", "D">> }

Undefined == [undefined |-> TRUE]

\* Rationals num/den; den > 0.
Rat(n, d) == [num |-> n, den |-> d]

\* Portions of the radius are counted in 60ths (so that 1/2, 1/3, 1/4, 1/5,
\* 1/10 are exact) plus a fine part counted in units of 1e-10, the size of
\* constants.NEGLIGIBLE_NUMBER.  The fine parts used are far below 1/60.
One == 3 * 4 * 5
Portion(u, e) == [u |-> u, e |-> e]
NEGLIGIBLE_NUMBER == 1

Abs(x) == IF x < 0 THEN -x ELSE x
Min2(a, b) == IF a < b THEN a ELSE b
Range(s) == { s[i] : i \in 1..Len(s) }

\* JavaScript numbers that are not integers are kept as exact fractions in
\* lowest terms: the model follows the arithmetic of the code without the
\* rounding of its doubles.
RECURSIVE Gcd(_, _)
Gcd(a, b) == IF b = 0 THEN a ELSE Gcd(b, a % b)

Norm(n, d) ==
    LET g == Gcd(Abs(n), d)
    IN  IF n = 0 THEN Rat(0, 1) ELSE Rat(n \div g, d \div g)

Plus(a, b) == Norm(a.num * b.den + b.num * a.den, a.den * b.den)
Minus(a, b) == Norm(a.num * b.den - b.num * a.den, a.den * b.den)
Times(v, a) == Norm(v * a.num, a.den)
Over(a, v) == IF v < 0 THEN Norm(0 - a.num, a.den * (0 - v)) ELSE Norm(a.num, a.den * v)
Less(a, b) == a.num * b.den < b.num * a.den
Mul(a, b) == Norm(a.num * b.num, a.den * b.den)
Div(a, b) ==
    IF b.num < 0 THEN Norm(0 - a.num * b.den, a.den * (0 - b.num))
    ELSE Norm(a.num * b.den, a.den * b.num)

\* A number with a fine part: c + e * 1e-10, c and e fractions.
Fine(c, e) == [c |-> c, e |-> e]
FineOfPortion(p) == Fine(Norm(p.u, One), Rat(p.e, 1))
FinePlus(r, x) == Fine(Plus(r, x.c), x.e)
FineTimes(r, x) == Fine(Mul(r, x.c), Mul(r, x.e))

RECURSIVE SumSeq(_)
SumSeq(s) == IF s = <<>> THEN 0 ELSE Head(s) + SumSeq(Tail(s))

(***************************************************************************)
(* Records of the data provider                                            *)
(***************************************************************************)
Rec(k, v) == [key |-> k, _value |-> v]

NoRecords == <<>>
ZeroRecords == << Rec(<<"A", "B">>, 0), Rec(<<"E">>, 0) >>
OneRing == << Rec(<<"A">>, 4), Rec(<<"E">>, 2) >>
TwoRings == << Rec(<<"A", "B">>, 10), Rec(<<"A", "C">>, 5), Rec(<<"E">>, 3) >>
ThreeRings == << Rec(<<"A", "B", "D">>, 10), Rec(<<"A", "C">>, 5), Rec(<<"E">>, 3) >>

Datasets == { NoRecords, ZeroRecords, OneRing, TwoRings, ThreeRings }

\* The record collections the hierarchy builder and the partition are run
\* on: every list of at most MaxRecords records over these keys and values,
\* in every order, with repeated keys and with keys that are a prefix of
\* another; the values handed to d3 .sum() are not negative.
TreeKeys == { <<"A">>, <<"A", "B">>, <<"A", "C">>, <<"A", "B", "D">>, <<"E">> }
TreeValues == { 0, 1, 2 }
TreeRecords == { Rec(k, v) : k \in TreeKeys, v \in TreeValues }
TreeLists == UNION { [1..n -> TreeRecords] : n \in 0..MaxRecords }

UsEu == << Rec(<<"US", "CA">>, 10), Rec(<<"US", "NY">>, 5), Rec(<<"EU", "FR">>, 3) >>

\* The same records delivered in another order.
Reorderings(list) ==
    { [i \in 1..Len(list) |-> list[f[i]]] : f \in Permutations(1..Len(list)) }

(***************************************************************************)
(* core/utils.ts                                                           *)
(***************************************************************************)
\* The arrays compared by reference: a HierarchyFilter and a path are never
\* the same object.
arraysIdenticalByReference(a, b) == FALSE

arraysIdentical(a, b) ==
    /\ Len(a) = Len(b)
    /\ \A i \in 1..Len(a) : a[i] = b[i]

\* The tree is kept as the sequence of its nodes in creation order; a node
\* names its parent by index, 0 being the synthetic root.  The children of
\* a node, in push order, are the nodes naming it, by increasing index.
childrenOf(nodes, n) ==
    SelectSeq([i \in 1..Len(nodes) |-> i], LAMBDA i : nodes[i].parent = n)

\* Index of the first child whose key is nodeName, -1 for `undefined`.
_findChild(nodes, children, nodeName) ==
    LET hits == SelectSeq(children, LAMBDA k : nodes[k].key = nodeName)
    IN  IF hits = <<>> THEN -1 ELSE Head(hits)

\* The inner loop with the whole key as the path of every node it creates.
RECURSIVE walkPartsWholeKey(_, _, _, _, _)
walkPartsWholeKey(st, parts, j, value, rec) ==
    IF j > Len(parts) \/ st.thrown THEN st
    ELSE IF st.currentNode # 0 /\ st.nodes[st.currentNode].leaf
    THEN [st EXCEPT !.thrown = TRUE]
    ELSE
        LET found == _findChild(st.nodes, childrenOf(st.nodes, st.currentNode), parts[j])
            grown == Append(st.nodes,
                        [key |-> parts[j], path |-> parts,
                         parent |-> st.currentNode, leaf |-> j = Len(parts),
                         value |-> IF j = Len(parts) THEN value ELSE 0,
                         data |-> IF j = Len(parts) THEN rec ELSE 0])
        IN  IF j < Len(parts) /\ found # -1
            THEN walkPartsWholeKey([st EXCEPT !.currentNode = found],
                                   parts, j + 1, value, rec)
            ELSE walkPartsWholeKey([st EXCEPT !.nodes = grown,
                                              !.currentNode =
                                                  IF j < Len(parts) THEN Len(grown) ELSE @],
                                   parts, j + 1, value, rec)

\* The inner loop with a leaf replacing an earlier leaf of the same key below
\* the same node (the last record wins).
RECURSIVE walkPartsMergeLeaves(_, _, _, _, _)
walkPartsMergeLeaves(st, parts, j, value, rec) ==
    IF j > Len(parts) \/ st.thrown THEN st
    ELSE IF st.currentNode # 0 /\ st.nodes[st.currentNode].leaf
    THEN [st EXCEPT !.thrown = TRUE]
    ELSE
        LET found == _findChild(st.nodes, childrenOf(st.nodes, st.currentNode), parts[j])
            created == [key |-> parts[j], path |-> SubSeq(parts, 1, j),
                        parent |-> st.currentNode, leaf |-> j = Len(parts),
                        value |-> IF j = Len(parts) THEN value ELSE 0,
                        data |-> IF j = Len(parts) THEN rec ELSE 0]
            grown == Append(st.nodes, created)
        IN  IF j < Len(parts)
            THEN IF found = -1
                 THEN walkPartsMergeLeaves([st EXCEPT !.nodes = grown,
                                                      !.currentNode = Len(grown)],
                                           parts, j + 1, value, rec)
                 ELSE walkPartsMergeLeaves([st EXCEPT !.currentNode = found],
                                           parts, j + 1, value, rec)
            ELSE IF found # -1 /\ st.nodes[found].leaf
                 THEN walkPartsMergeLeaves([st EXCEPT !.nodes[found] = created],
                                           parts, j + 1, value, rec)
                 ELSE walkPartsMergeLeaves([st EXCEPT !.nodes = grown],
                                           parts, j + 1, value, rec)

\* The inner loop of toHierarchy over the segments of one record's key.
\* st = [nodes, currentNode, thrown]; a leaf has no `children` property, so
\* looking up or pushing a child below a leaf is a TypeError.  rec is the
\* position of the record in the list: `data` refers to that record.
RECURSIVE walkParts(_, _, _, _, _)
walkParts(st, parts, j, value, rec) ==
    IF j > Len(parts) \/ st.thrown THEN st
    ELSE IF st.currentNode # 0 /\ st.nodes[st.currentNode].leaf
    THEN [st EXCEPT !.thrown = TRUE]
    ELSE
        LET currentPath == SubSeq(parts, 1, j)
            children == childrenOf(st.nodes, st.currentNode)
            nodeName == parts[j]
        IN  IF j < Len(parts)
            THEN LET found == _findChild(st.nodes, children, nodeName)
                     grown == Append(st.nodes,
                                [key |-> nodeName, path |-> currentPath,
                                 parent |-> st.currentNode, leaf |-> FALSE,
                                 value |-> 0, data |-> 0])
                 IN  IF found = -1
                     THEN walkParts([st EXCEPT !.nodes = grown, !.currentNode = Len(grown)],
                                    parts, j + 1, value, rec)
                     ELSE walkParts([st EXCEPT !.currentNode = found],
                                    parts, j + 1, value, rec)
            ELSE walkParts([st EXCEPT !.nodes =
                                Append(st.nodes,
                                   [key |-> nodeName, path |-> currentPath,
                                    parent |-> st.currentNode, leaf |-> TRUE,
                                    value |-> value, data |-> rec])],
                           parts, j + 1, value, rec)

\* The outer loop of toHierarchy; values[i] = accessor(list[i]).
RECURSIVE buildLoop(_, _, _, _)
buildLoop(st, list, values, i) ==
    IF i > Len(list) \/ st.thrown THEN st
    ELSE buildLoop(walkParts([st EXCEPT !.currentNode = 0], list[i].key, 1, values[i], i),
                   list, values, i + 1)

\* toHierarchy(list, accessor): [nodes, thrown]; the accessor is a function
\* on the records of the list.
toHierarchy(list, accessor) ==
    LET st == buildLoop([nodes |-> <<>>, currentNode |-> 0, thrown |-> FALSE],
                        list, [i \in 1..Len(list) |-> accessor[list[i]]], 1)
    IN  [nodes |-> st.nodes, thrown |-> st.thrown]

(***************************************************************************)
(* core/filters/hierarchy-filter.ts and the filter API of BaseMixin        *)
(***************************************************************************)
\* HierarchyFilter.isFiltered(value): the filter's path is a prefix of value.
isFiltered(f, value) ==
    /\ Len(f) <= Len(value)
    /\ \A i \in 1..Len(f) : value[i] = f[i]

hasFilter(fs, f) == \E i \in 1..Len(fs) : fs[i] = f

\* this.filter(f): removes f when it is active, adds it at the end otherwise.
filter(fs, f) ==
    IF hasFilter(fs, f)
    THEN LET i == CHOOSE k \in 1..Len(fs) : fs[k] = f /\ \A m \in 1..(k - 1) : fs[m] # f
         IN  SubSeq(fs, 1, i - 1) \o SubSeq(fs, i + 1, Len(fs))
    ELSE Append(fs, f)

\* Each this.filter(f) call is a discrete filter event: the chart's
\* "filtered" (filter changed) notification.
filteredEvent(f) == [ev |-> "filtered", f |-> f, filters |-> <<>>]

\* this.redrawGroup(): the re-render notification; `filters` is the active
\* set the redraw observes.
redrawGroupEvent(fs) == [ev |-> "redrawGroup", f |-> <<>>, filters |-> fs]

CountEv(log, ev) == Cardinality({ i \in 1..Len(log) : log[i].ev = ev })

(***************************************************************************)
(* Ring-size policies (sunburst-chart.ts)                                  *)
(***************************************************************************)
\* The functions a caller hands to relativeRingSizes, by name; "equal" is
\* the function equalRingSizes() builds.
RingFns ==
    { "equal", "tenth_three_six", "half_sixtenths", "three_tenths",
      "halves_eps", "halves_2eps", "number" }

Arr(vals) == [isArray |-> TRUE, vals |-> vals]

\* The loop pushing 1 / (ringCount + 1).
equalRingSizesFunctionOffByOne(ringCount) ==
    Arr([i \in 1..ringCount |-> Portion(One \div (ringCount + 1), 0)])

\* The function equalRingSizes() passes on: ringCount times 1 / ringCount.
equalRingSizesFunction(ringCount) ==
    Arr([i \in 1..ringCount |-> Portion(One \div ringCount, 0)])

applyFn(fn, ringCount) ==
    CASE fn = "equal" -> equalRingSizesFunction(ringCount)
      [] fn = "tenth_three_six" ->
            Arr(<< Portion(6, 0), Portion(18, 0), Portion(36, 0) >>)
      [] fn = "half_sixtenths" -> Arr(<< Portion(30, 0), Portion(36, 0) >>)
      [] fn = "three_tenths" ->
            Arr(<< Portion(18, 0), Portion(18, 0), Portion(18, 0) >>)
      [] fn = "halves_eps" -> Arr(<< Portion(30, 0), Portion(30, 1) >>)
      [] fn = "halves_2eps" -> Arr(<< Portion(30, 0), Portion(30, 2) >>)
      [] fn = "zero_one" -> Arr(<< Portion(0, 0), Portion(One, 0) >>)
      [] fn = "number" -> [isArray |-> FALSE, vals |-> <<>>]

defaultRingSizes == [kind |-> "default", fn |-> "none"]
relativeRingSizes(fn) == [kind |-> "relative", fn |-> fn]
equalRingSizes == relativeRingSizes("equal")

RingSizeSpecs == { defaultRingSizes } \cup { relativeRingSizes(fn) : fn \in RingFns }

\* d3.sum of the portions, coarse and fine part.
portionsSum(vals) ==
    [u |-> SumSeq([i \in 1..Len(vals) |-> vals[i].u]),
     e |-> SumSeq([i \in 1..Len(vals) |-> vals[i].e])]

\* Math.abs(portionsSum - 1) > constants.NEGLIGIBLE_NUMBER
farFromOne(s) == s.u # One \/ Abs(s.e) > NEGLIGIBLE_NUMBER

NotAnArray == "relativeRingSizes function must return an array"
SumNotOne == "portions must add up to 1"
LengthMismatch == "number of values must match number of rings"

\* The sum check left out.
assertPortionsArrayNoSum(relativeSizes, numberOfRings) ==
    IF ~relativeSizes.isArray THEN NotAnArray
    ELSE IF Len(relativeSizes.vals) # numberOfRings THEN LengthMismatch
    ELSE "none"

\* assertPortionsArray: the message of the BadArgumentException it throws,
\* "none" when it returns normally.
assertPortionsArray(relativeSizes, numberOfRings) ==
    IF ~relativeSizes.isArray THEN NotAnArray
    ELSE IF farFromOne(portionsSum(relativeSizes.vals)) THEN SumNotOne
    ELSE IF Len(relativeSizes.vals) # numberOfRings THEN LengthMismatch
    ELSE "none"

\* ringSizes.relativeRingSizesFunction(ringCount): [thrown, result]
relativeRingSizesFunction(ringSizes, ringCount) ==
    IF ringSizes.kind = "default"
    THEN [thrown |-> "none", result |-> <<>>]
    ELSE LET result == applyFn(ringSizes.fn, ringCount)
         IN  [thrown |-> assertPortionsArray(result, ringCount),
              result |-> result.vals]

\* ringSizes.partitionDy()
partitionDy(ringSizes, computedRadius) ==
    IF ringSizes.kind = "default"
    THEN Rat(computedRadius.num * computedRadius.num,
             computedRadius.den * computedRadius.den)
    ELSE Rat(1, 1)

\* _scaleRadius(ringIndex, y), from the fields the draw has set.  The
\* quotients are exact; a division of a positive number by 0 gives Infinity
\* and a division by Infinity gives 0, as for the doubles of the code.
_scaleRadius(conf, relativeSizes, rootOffset, computedRadius, ringIndex, y) ==
    IF ringIndex = 0 THEN Fine(Rat(conf.innerRadius, 1), Rat(0, 1))
    ELSE LET customRelativeRadius ==
                 portionsSum(SubSeq(relativeSizes, 1, ringIndex))
             \* scaleFactor = numerator / customRelativeRadius
             numerator == Norm(ringIndex, Len(relativeSizes))
             infinite == customRelativeRadius.u = 0 /\ customRelativeRadius.e = 0
             standardRadius ==
                 Mul(Div(Minus(y, rootOffset), Minus(Rat(1, 1), rootOffset)),
                     Minus(computedRadius, Rat(conf.innerRadius, 1)))
         IN  FinePlus(Rat(conf.innerRadius, 1),
                      IF infinite THEN Fine(Rat(0, 1), Rat(0, 1))
                      ELSE FineTimes(Div(standardRadius, numerator),
                                     FineOfPortion(customRelativeRadius)))

\* scaleInnerRadius(d) and scaleOuterRadius(d) of relativeRingSizes(...);
\* d.data.path is the path of the node.
scaleInnerRadius(conf, relativeSizes, rootOffset, computedRadius, d) ==
    _scaleRadius(conf, relativeSizes, rootOffset, computedRadius, Len(d.path) - 1, d.y0)

\* The outer radius taken at the inner edge of the ring.
scaleOuterRadiusAtY0(conf, relativeSizes, rootOffset, computedRadius, d) ==
    _scaleRadius(conf, relativeSizes, rootOffset, computedRadius, Len(d.path), d.y0)

scaleOuterRadius(conf, relativeSizes, rootOffset, computedRadius, d) ==
    _scaleRadius(conf, relativeSizes, rootOffset, computedRadius, Len(d.path), d.y1)

(***************************************************************************)
(* Partition and draw (sunburst-chart.ts)                                  *)
(***************************************************************************)
\* d3 hierarchy(data).height: the depth of the deepest node (0 for a root
\* without children); a node built by toHierarchy sits at depth Len(path).
hierarchyHeight(nodes) ==
    IF nodes = <<>> THEN 0
    ELSE CHOOSE h \in { Len(nodes[i].path) : i \in 1..Len(nodes) } :
            \A i \in 1..Len(nodes) : Len(nodes[i].path) <= h

\* Handle cases if value corresponds to generated parent nodes
_extendedValueAccessor(d) ==
    IF "path" \in DOMAIN d THEN d.value ELSE d._value

\* The function handed to .sum(): d => (d.children ? 0 : accessor(d)); only a
\* leaf has no `children`.
sumValue(d) == IF ~d.leaf THEN 0 ELSE _extendedValueAccessor(d)

\* The sum taken over the node and its children only, not over the nodes
\* below them.
hierarchySumChildrenOnly(nodes, n) ==
    LET children == childrenOf(nodes, n)
    IN  (IF n = 0 THEN 0 ELSE sumValue(nodes[n]))
        + SumSeq([i \in 1..Len(children) |-> sumValue(nodes[children[i]])])

\* node.value after d3 .sum(): the node's own sumValue plus the values of
\* its children; the synthetic root (node 0) has children and adds 0.
RECURSIVE hierarchySum(_, _)
hierarchySum(nodes, n) ==
    LET children == childrenOf(nodes, n)
    IN  (IF n = 0 THEN 0 ELSE sumValue(nodes[n]))
        + SumSeq([i \in 1..Len(children) |-> hierarchySum(nodes, children[i])])

\* The key segments in the order of JavaScript strings, which d3 ascending
\* follows.
KeyOrder == << "A", "B", "C", "CA", "D", "E", "EU", "FR", "NY", "US" >>

\* The comparison turned round.
descending(a, b) ==
    LET ia == CHOOSE i \in 1..Len(KeyOrder) : KeyOrder[i] = a
        ib == CHOOSE i \in 1..Len(KeyOrder) : KeyOrder[i] = b
    IN  IF ia < ib THEN 1 ELSE IF ia > ib THEN -1 ELSE 0

ascending(a, b) ==
    LET ia == CHOOSE i \in 1..Len(KeyOrder) : KeyOrder[i] = a
        ib == CHOOSE i \in 1..Len(KeyOrder) : KeyOrder[i] = b
    IN  IF ia < ib THEN -1 ELSE IF ia > ib THEN 1 ELSE 0

\* ordering: d => d.key, applied to getSortable(d) = {key, value}.
ordering(d) == d.key
getSortable(nodes, values, n) == [key |-> nodes[n].key, value |-> values[n]]

\* .sort(compare) on the children of one node: Array.prototype.sort, which
\* is stable.  sorted holds the children taken so far, in order.
RECURSIVE sortChildren(_, _, _, _, _)
sortChildren(nodes, values, children, i, sorted) ==
    IF i > Len(children) THEN sorted
    ELSE LET b == children[i]
             notAfter(a) == ascending(ordering(getSortable(nodes, values, a)),
                                      ordering(getSortable(nodes, values, b))) <= 0
         IN  sortChildren(nodes, values, children, i + 1,
                SelectSeq(sorted, notAfter) \o << b >>
                    \o SelectSeq(sorted, LAMBDA a : ~notAfter(a)))

\* Angles are counted in units of 2 * Math.PI: the partition has the size
\* [2 * Math.PI, partitionDy()].
TwoPi == Rat(1, 1)

\* d3 treemapDice over the sorted children from the i-th on: each child
\* starts where the one before it ends and is value * k wide.
RECURSIVE treemapDice(_, _, _, _, _, _)
treemapDice(values, children, i, x0, k, depth) ==
    IF i > Len(children) THEN <<>>
    ELSE LET x1 == Plus(x0, Times(values[children[i]], k))
         IN  << [n |-> children[i], depth |-> depth, x0 |-> x0, x1 |-> x1] >>
                \o treemapDice(values, children, i + 1, x1, k, depth)

\* d3 positionNode (padding 0): an interval that ends before it starts
\* collapses to its middle.
positionNode(nodes, values, dy, height, cur) ==
    LET collapsed == Over(Plus(cur.x0, cur.x1), 2)
        flip == Less(cur.x1, cur.x0)
    IN  [key |-> IF cur.n = 0 THEN "root" ELSE nodes[cur.n].key,
         path |-> IF cur.n = 0 THEN <<>> ELSE nodes[cur.n].path,
         node |-> cur.n,
         parent |-> IF cur.n = 0 THEN -1 ELSE nodes[cur.n].parent,
         leaf |-> IF cur.n = 0 THEN FALSE ELSE nodes[cur.n].leaf,
         data |-> IF cur.n = 0 THEN 0 ELSE nodes[cur.n].data,
         depth |-> cur.depth,
         value |-> values[cur.n],
         x0 |-> IF flip THEN collapsed ELSE cur.x0,
         x1 |-> IF flip THEN collapsed ELSE cur.x1,
         y0 |-> Rat(dy.num * cur.depth, dy.den * (height + 1)),
         y1 |-> Rat(dy.num * (cur.depth + 1), dy.den * (height + 1))]

\* _partition(_hierarchy) and _hierarchy.descendants(): the nodes in
\* breadth-first order, the root first.  queue holds the nodes whose
\* interval is set and whose children are still to be placed.
RECURSIVE descendants(_, _, _, _, _, _)
descendants(nodes, values, dy, height, queue, out) ==
    IF queue = <<>> THEN out
    ELSE LET cur == Head(queue)
             children == sortChildren(nodes, values, childrenOf(nodes, cur.n), 1, <<>>)
             k == IF values[cur.n] = 0 THEN Rat(0, 1)
                  ELSE Over(Minus(cur.x1, cur.x0), values[cur.n])
         IN  descendants(nodes, values, dy, height,
                Tail(queue) \o treemapDice(values, children, 1, cur.x0, k, cur.depth + 1),
                Append(out, positionNode(nodes, values, dy, height, cur)))

\* The partition sized [Math.PI, partitionDy()].
_partitionNodesHalfCircle(cdata, ringSizes, computedRadius) ==
    LET height == hierarchyHeight(cdata.nodes)
        dy == partitionDy(ringSizes, computedRadius)
        values == [n \in 0..Len(cdata.nodes) |-> hierarchySum(cdata.nodes, n)]
        relativeSizes == relativeRingSizesFunction(ringSizes, height)
    IN  [thrown |-> relativeSizes.thrown,
         nodes |-> descendants(cdata.nodes, values, dy, height,
                               << [n |-> 0, depth |-> 0, x0 |-> Rat(0, 1), x1 |-> Rat(1, 2)] >>,
                               <<>>),
         height |-> height,
         rootOffset |-> Rat(dy.num, dy.den * (height + 1)),
         relativeRingSizes |-> relativeSizes.result]

\* _partitionNodes(data): [thrown, nodes, rootOffset, relativeRingSizes,
\* height]; rootOffset is the root's y1 = dy / (height + 1).
_partitionNodes(cdata, ringSizes, computedRadius) ==
    LET height == hierarchyHeight(cdata.nodes)
        dy == partitionDy(ringSizes, computedRadius)
        values == [n \in 0..Len(cdata.nodes) |-> hierarchySum(cdata.nodes, n)]
        relativeSizes == relativeRingSizesFunction(ringSizes, height)
    IN  [thrown |-> relativeSizes.thrown,
         nodes |-> descendants(cdata.nodes, values, dy, height,
                               << [n |-> 0, depth |-> 0, x0 |-> Rat(0, 1), x1 |-> TwoPi] >>,
                               <<>>),
         height |-> height,
         rootOffset |-> Rat(dy.num, dy.den * (height + 1)),
         relativeRingSizes |-> relativeSizes.result]

\* d3.sum(this.data(), d => d._value)
dataSum(list) == SumSeq([i \in 1..Len(list) |-> list[i]._value])

_emptyCssClass == "empty-chart"

\* min([this.width(), this.height()]) / 2
maxRadius(conf) == Rat(Min2(conf.width, conf.height), 2)

\* The given radius taken whatever the size of the chart.
computeRadiusAsGiven(conf) ==
    IF conf.radius # 0 THEN Rat(conf.radius, 1) ELSE maxRadius(conf)

\* set radius from chart size if none given, or if given radius is too
\* large; a radius not given is 0 here (undefined and 0 are both falsy).
computeRadius(conf) ==
    IF conf.radius # 0 /\ Less(Rat(conf.radius, 1), maxRadius(conf))
    THEN Rat(conf.radius, 1)
    ELSE maxRadius(conf)

\* _drawChart(): the values the chart's fields hold when it returns or
\* throws, from the values they hold when it is called; nodes is the node
\* sequence bound to the slices, `bound` the one bound before the call.
_drawChart(conf, list, g, rootOffset, relativeSizes, bound) ==
    LET computedRadius == computeRadius(conf)
        hasData == dataSum(list) # 0
        cdata == IF hasData
                 THEN toHierarchy(list, [d \in Range(list) |-> d._value])
                 ELSE toHierarchy(<<>>, [d \in {} |-> 0])
        part == _partitionNodes(cdata, conf.ringSizes, computedRadius)
        thrown == IF cdata.thrown THEN "TypeError" ELSE part.thrown
    IN  IF thrown # "none"
        THEN [thrown |-> thrown, g |-> g, computedRadius |-> computedRadius,
              rootOffset |-> rootOffset, relativeRingSizes |-> relativeSizes,
              nodes |-> bound]
        ELSE [thrown |-> "none",
              g |-> IF hasData THEN "" ELSE _emptyCssClass,
              computedRadius |-> computedRadius,
              rootOffset |-> part.rootOffset,
              relativeRingSizes |-> part.relativeRingSizes,
              \* First one is the root, which is not needed
              nodes |-> IF hasData THEN Tail(part.nodes) ELSE part.nodes]

(***************************************************************************)
(* Filter reconciliation (sunburst-chart.ts)                               *)
(***************************************************************************)
_isPathFiltered(fs, path) == \E i \in 1..Len(fs) : isFiltered(fs[i], path)

\* Only the filters covering the path: its ancestors and itself.
_filtersForPathAncestorsOnly(fs, path) ==
    SelectSeq(fs, LAMBDA currentFilter : isFiltered(currentFilter, path))

\* Only the filters the path covers: its descendants and itself.
_filtersForPathDescendantsOnly(fs, path) ==
    SelectSeq(fs, LAMBDA currentFilter : isFiltered(path, currentFilter))

\* returns all filters that are a parent or child of the path
_filtersForPath(fs, path) ==
    SelectSeq(fs, LAMBDA currentFilter :
                    isFiltered(currentFilter, path) \/ isFiltered(path, currentFilter))

\* The loop stopping before the first element of filtersList.
RECURSIVE clearFiltersSkipFirst(_, _, _, _)
clearFiltersSkipFirst(filtersList, j, path, acc) ==
    IF j <= 1 THEN acc
    ELSE LET currentFilter == filtersList[j]
         IN  clearFiltersSkipFirst(filtersList, j - 1, path,
                [fs |-> filter(acc.fs, currentFilter),
                 exactMatch |-> acc.exactMatch \/ arraysIdentical(currentFilter, path),
                 log |-> Append(acc.log, filteredEvent(currentFilter))])

\* The loop of onClick over filtersList, from its last element to its first:
\* acc = [fs, exactMatch, log].
RECURSIVE clearFilters(_, _, _, _)
clearFilters(filtersList, j, path, acc) ==
    IF j = 0 THEN acc
    ELSE LET currentFilter == filtersList[j]
         IN  clearFilters(filtersList, j - 1, path,
                [fs |-> filter(acc.fs, currentFilter),
                 exactMatch |-> acc.exactMatch \/ arraysIdentical(currentFilter, path),
                 log |-> Append(acc.log, filteredEvent(currentFilter))])

\* The closure with the new filter always put in.
triggerClosureAlwaysAdd(acc, path) ==
    [acc EXCEPT !.fs = filter(acc.fs, path),
                !.log = acc.log \o << filteredEvent(path),
                                      redrawGroupEvent(filter(acc.fs, path)) >>]

\* The closure redrawing before the new filter is put in, and after.
triggerClosureRedrawTwice(acc, path) ==
    IF ~acc.exactMatch
    THEN [acc EXCEPT !.fs = filter(acc.fs, path),
                     !.log = acc.log \o << redrawGroupEvent(acc.fs),
                                           filteredEvent(path),
                                           redrawGroupEvent(filter(acc.fs, path)) >>]
    ELSE [acc EXCEPT !.log = Append(acc.log, redrawGroupEvent(acc.fs))]

\* The closure redrawing first and putting the new filter in afterwards.
triggerClosureRedrawFirst(acc, path) ==
    IF ~acc.exactMatch
    THEN [acc EXCEPT !.fs = filter(acc.fs, path),
                     !.log = acc.log \o << redrawGroupEvent(acc.fs),
                                           filteredEvent(path) >>]
    ELSE [acc EXCEPT !.log = Append(acc.log, redrawGroupEvent(acc.fs))]

\* The closure onClick hands to events.trigger, which runs it at once.
triggerClosure(acc, path) ==
    IF ~acc.exactMatch
    THEN [acc EXCEPT !.fs = filter(acc.fs, path),
                     !.log = acc.log \o << filteredEvent(path),
                                           redrawGroupEvent(filter(acc.fs, path)) >>]
    ELSE [acc EXCEPT !.log = Append(acc.log, redrawGroupEvent(acc.fs))]

\* What onClick does to the active filters once the empty-state guard is
\* passed: [fs, exactMatch, removed, log].
reconcile(fs, path) ==
    LET filtersList == _filtersForPath(fs, path)
        cleared == clearFilters(filtersList, Len(filtersList), path,
                                [fs |-> fs, exactMatch |-> FALSE, log |-> <<>>])
        done == triggerClosure(cleared, path)
    IN  [fs |-> done.fs, exactMatch |-> done.exactMatch,
         removed |-> filtersList, log |-> done.log]

(***************************************************************************)
(* ChartRegistry (core/chart-registry.ts) and the ChartGroup objects it    *)
(* keeps                                                                   *)
(***************************************************************************)
\* Most ChartGroup objects created in one run.
MaxGroups == 3

\* An optional string argument: a name, or left out (undefined).
Name(name) == [missing |-> FALSE, name |-> name]
Missing == [missing |-> TRUE, name |-> ""]

\* !group
Falsy(group) == group.missing \/ group.name = ""

DEFAULT_CHART_GROUP == "__default_chart_group__"

\* The names a group may be registered under as an own property of _chartMap,
\* and the charts.
GroupKeys == { DEFAULT_CHART_GROUP, "g1", "g2" }
Charts == { "c1", "c2" }

\* this._chartMap = {} is a plain object: a read of a property it does not
\* own goes to Object.prototype, whose members are functions.
ObjectPrototype == { "constructor", "toString" }

ChartGroupRef(id) == [kind |-> "ChartGroup", id |-> id, member |-> ""]
InheritedRef(member) == [kind |-> "Object.prototype", id |-> 0, member |-> member]
UndefinedRef == [kind |-> "undefined", id |-> 0, member |-> ""]

\* this._chartMap[group]; an own property holds the id of its ChartGroup, 0
\* stands for no own property.
getProperty(map, group) ==
    IF group \in DOMAIN map /\ map[group] # 0 THEN ChartGroupRef(map[group])
    ELSE IF group \in ObjectPrototype THEN InheritedRef(group)
    ELSE UndefinedRef

\* ChartGroup: list(), has(chart), clear() and register(chart) on the object
\* heap[id].
groupList(heap, id) == heap[id]
groupHas(heap, id, c) == \E i \in 1..Len(heap[id]) : heap[id][i] = c
groupClear(heap, id) == [heap EXCEPT ![id] = <<>>]
groupRegister(heap, id, c) == [heap EXCEPT ![id] = Append(heap[id], c)]

\* chartGroup(group): [map, heap, ret, thrown], the registry after the call
\* and the value returned.
chartGroup(map, heap, group) ==
    LET g == IF Falsy(group) THEN DEFAULT_CHART_GROUP ELSE group.name
        found == getProperty(map, g)
    IN  IF found.kind = "undefined"
        THEN [map |-> [map EXCEPT ![g] = Len(heap) + 1],
              heap |-> Append(heap, <<>>),
              ret |-> ChartGroupRef(Len(heap) + 1), thrown |-> "none"]
        ELSE [map |-> map, heap |-> heap, ret |-> found, thrown |-> "none"]

\* has(chart): the for...in loop over the own properties of _chartMap.
has(map, heap, c) ==
    \E chartGroupName \in DOMAIN map :
        /\ map[chartGroupName] # 0
        /\ groupHas(heap, map[chartGroupName], c)

\* clear(group): a value inherited from Object.prototype has no clear
\* method, and calling it throws a TypeError.
clear(map, heap, group) ==
    IF ~Falsy(group)
    THEN LET found == getProperty(map, group.name)
         IN  IF found.kind = "undefined"
             THEN [map |-> map, heap |-> heap, ret |-> <<>>, thrown |-> "none"]
             ELSE IF found.kind = "ChartGroup"
             THEN [map |-> [map EXCEPT ![group.name] = 0],
                   heap |-> groupClear(heap, found.id), ret |-> <<>>, thrown |-> "none"]
             ELSE [map |-> map, heap |-> heap, ret |-> <<>>, thrown |-> "TypeError"]
    ELSE [map |-> [k \in DOMAIN map |-> 0],
          heap |-> [id \in 1..Len(heap) |->
                        IF \E k \in DOMAIN map : map[k] = id THEN <<>> ELSE heap[id]],
          ret |-> <<>>, thrown |-> "none"]

\* list(group): this.chartGroup(group).list()
listOf(map, heap, group) ==
    LET found == chartGroup(map, heap, group)
    IN  IF found.ret.kind = "ChartGroup"
        THEN [found EXCEPT !.ret = groupList(found.heap, found.ret.id)]
        ELSE [found EXCEPT !.ret = <<>>, !.thrown = "TypeError"]

\* chartRegistry.chartGroup(group).register(chart), as a chart does when it
\* is anchored.
register(map, heap, group, c) ==
    LET found == chartGroup(map, heap, group)
    IN  IF found.ret.kind = "ChartGroup"
        THEN [found EXCEPT !.heap = groupRegister(found.heap, found.ret.id, c),
                           !.ret = <<>>]
        ELSE [found EXCEPT !.ret = <<>>, !.thrown = "TypeError"]

\* One call on the registry: the registry after it and the record of the
\* call, with the registry it found.
RegistryCall(op, arg, r) ==
    /\ Len(r.heap) <= MaxGroups
    /\ _chartMap' = r.map
    /\ _charts' = r.heap
    /\ call' = [op |-> op, arg |-> arg, ret |-> r.ret, thrown |-> r.thrown,
                before |-> [map |-> _chartMap, heap |-> _charts]]
    /\ UNCHANGED chart

CallChartGroup(group) ==
    RegistryCall("chartGroup", group, chartGroup(_chartMap, _charts, group))

CallHas(c) ==
    RegistryCall("has", c, [map |-> _chartMap, heap |-> _charts,
                            ret |-> has(_chartMap, _charts, c), thrown |-> "none"])

CallClear(group) ==
    RegistryCall("clear", group, clear(_chartMap, _charts, group))

CallList(group) ==
    RegistryCall("list", group, listOf(_chartMap, _charts, group))

\* A chart registers once with the group it is anchored in.
CallRegister(group, c) ==
    /\ ~has(_chartMap, _charts, c)
    /\ RegistryCall("register", [group |-> group, chart |-> c],
                    register(_chartMap, _charts, group, c))

(***************************************************************************)
(* The number tests of core/utils.ts                                       *)
(***************************************************************************)
\* A JavaScript number: NaN, an infinity, or a finite number of magnitude
\* hi * 2^16 + lo, plus 1/2 when half.  Zero has no sign here.
Limb == 65536

Num(neg, hi, lo, half) ==
    [kind |-> "finite", neg |-> neg, hi |-> hi, lo |-> lo, half |-> half]
NotFinite(kind) == [kind |-> kind, neg |-> FALSE, hi |-> 0, lo |-> 0, half |-> FALSE]

\* The numbers the tests are applied to: around 0, 2^31, 2^32 and above,
\* of both signs, whole and with a fraction.
Numbers ==
    ({ Num(neg, hi, lo, half) :
           neg \in BOOLEAN, hi \in { 0, 1, 32767, 32768, 65535, 65536, 65537 },
           lo \in { 0, 1, 65535 }, half \in BOOLEAN }
       \ { Num(TRUE, 0, 0, FALSE) })
    \cup { NotFinite("NaN"), NotFinite("Infinity"), NotFinite("-Infinity") }

\* n | 0, the ToInt32 conversion: NaN and the infinities give 0; a finite
\* number is truncated to its whole part, taken modulo 2^32 and read as a
\* signed 32-bit integer.
ToInt32(n) ==
    IF n.kind # "finite" THEN Num(FALSE, 0, 0, FALSE)
    ELSE LET h == n.hi % Limb
             l == n.lo
             zero == h = 0 /\ l = 0
             \* the bit pattern uh * 2^16 + ul: 2^32 - magnitude when negative
             uh == IF n.neg /\ ~zero
                   THEN (IF l = 0 THEN Limb - h ELSE Limb - 1 - h) ELSE h
             ul == IF n.neg /\ ~zero
                   THEN (IF l = 0 THEN 0 ELSE Limb - l) ELSE l
         IN  IF uh >= Limb \div 2
             THEN Num(TRUE, IF ul = 0 THEN Limb - uh ELSE Limb - 1 - uh,
                      IF ul = 0 THEN 0 ELSE Limb - ul, FALSE)
             ELSE Num(FALSE, uh, ul, FALSE)

\* n === +n: false for NaN only, the arguments being numbers.
isNumber(n) == n.kind # "NaN"

\* Is the value a float?  n === +n && n !== (n | 0)
isFloat(n) == isNumber(n) /\ n # ToInt32(n)

\* Is the value an integer?  n === +n && n === (n | 0)
isInteger(n) == isNumber(n) /\ n = ToInt32(n)

\* printSingleValue(filter) of a number: the formatting it chooses.
printSingleValue(n) ==
    IF isFloat(n) THEN "config.floatFormat(filter)"
    ELSE IF isInteger(n) THEN "Math.round(filter)"
    ELSE "filter"

\* One call of a function of core/utils.
UtilsCall(op, arg, ret) ==
    /\ call' = [op |-> op, arg |-> arg, ret |-> ret, thrown |-> "none", before |-> <<>>]
    /\ UNCHANGED <<chart, _chartMap, _charts>>

CallIsInteger(n) == UtilsCall("isInteger", n, isInteger(n))
CallIsFloat(n) == UtilsCall("isFloat", n, isFloat(n))
CallPrintSingleValue(n) == UtilsCall("printSingleValue", n, printSingleValue(n))

(***************************************************************************)
(* The handlers                                                            *)
(***************************************************************************)
\* The record kept of a handler: the filters it found (pre), what it removed,
\* the notifications it emitted (log), the error it ended with.  `first`
\* holds, for an onClick that directly follows a processed onClick of the
\* same path, the filters that earlier click found.
Op(op, path, ignored, r, thrown, first) ==
    [op |-> op, path |-> path, ignored |-> ignored, pre |-> filters,
     removed |-> r.removed, exactMatch |-> r.exactMatch, log |-> r.log,
     thrown |-> thrown, first |-> first]

NoEffect == [removed |-> <<>>, exactMatch |-> FALSE, log |-> <<>>]

\* One _drawChart call by the handler op, g being the class of this._g at
\* the call: the assignments on the chart's fields and the record of the
\* handler, with the error the call ended with.
Draw(g, op, path, r, first) ==
    LET d == _drawChart(_conf, data, g, _rootOffset, _relativeRingSizes, slices)
    IN  /\ _g' = d.g
        /\ slices' = d.nodes
        /\ _computedRadius' = d.computedRadius
        /\ _rootOffset' = d.rootOffset
        /\ _relativeRingSizes' = d.relativeRingSizes
        /\ last' = Op(op, path, FALSE, r, d.thrown, first)

\* No registry or utils call made yet.
NoCall ==
    [op |-> "none", arg |-> <<>>, ret |-> <<>>, thrown |-> "none", before |-> <<>>]

\* The chart after construction, over the records `list` of its data provider;
\* the registry as its constructor leaves it: this._chartMap = {}.
InitChart(list) ==
    /\ filters = <<>>
    /\ _g = "undefined"
    /\ data = list
    /\ _conf = [ringSizes |-> defaultRingSizes, radius |-> 0, innerRadius |-> 0,
                width |-> 200, height |-> 100]
    /\ _computedRadius = Undefined
    /\ _rootOffset = Undefined
    /\ _relativeRingSizes = Undefined
    /\ slices = <<>>
    /\ last = [op |-> "constructor", path |-> <<>>, ignored |-> FALSE, pre |-> <<>>,
               removed |-> <<>>, exactMatch |-> FALSE, log |-> <<>>,
               thrown |-> "none", first |-> <<>>]
    /\ _chartMap = [group \in GroupKeys |-> 0]
    /\ _charts = <<>>
    /\ call = NoCall

\* chart.render(): a fresh <g>, then _drawChart.
_doRender ==
    /\ Draw("", "render", <<>>, NoEffect, <<>>)
    /\ UNCHANGED <<filters, data, _conf>>
    /\ UNCHANGED registry

\* chart.redraw()
_doRedraw ==
    /\ _g # "undefined"
    /\ Draw(_g, "redraw", <<>>, NoEffect, <<>>)
    /\ UNCHANGED <<filters, data, _conf>>
    /\ UNCHANGED registry

\* The data provider delivers other records.
setData(list) ==
    /\ list # data
    /\ data' = list
    /\ last' = Op("setData", <<>>, FALSE, NoEffect, "none", <<>>)
    /\ UNCHANGED <<filters, _g, _conf, _computedRadius, _rootOffset, _relativeRingSizes,
                   slices>>
    /\ UNCHANGED registry

\* chart.configure({ringSizes: ...})
configure(ringSizes) ==
    /\ ringSizes # _conf.ringSizes
    /\ _conf' = [_conf EXCEPT !.ringSizes = ringSizes]
    /\ last' = Op("configure", <<>>, FALSE, NoEffect, "none", <<>>)
    /\ UNCHANGED <<filters, _g, data, _computedRadius, _rootOffset, _relativeRingSizes,
                   slices>>
    /\ UNCHANGED registry

\* chart.configure({radius: ..., innerRadius: ...}) and the size of the chart
\* (width, height).
configureRadius(radius, innerRadius, size) ==
    /\ _conf' = [_conf EXCEPT !.radius = radius, !.innerRadius = innerRadius,
                              !.width = size[1], !.height = size[2]]
    /\ _conf' # _conf
    /\ last' = Op("configure", <<>>, FALSE, NoEffect, "none", <<>>)
    /\ UNCHANGED <<filters, _g, data, _computedRadius, _rootOffset, _relativeRingSizes,
                   slices>>
    /\ UNCHANGED registry

\* chart.filter(new HierarchyFilter(path)) called by the application.
filterApi(path) ==
    /\ Len(filter(filters, path)) <= MaxFilters
    /\ filters' = filter(filters, path)
    /\ last' = Op("filter", path, FALSE,
                  [NoEffect EXCEPT !.log = << filteredEvent(path) >>], "none", <<>>)
    /\ UNCHANGED <<_g, data, _conf, _computedRadius, _rootOffset, _relativeRingSizes,
                   slices>>
    /\ UNCHANGED registry

\* onClick without the test of the empty state.
onClickNoEmptyTest(path) ==
    LET first == IF last.op = "onClick" /\ ~last.ignored /\ last.path = path
                 THEN << last.pre >> ELSE <<>>
        r == reconcile(filters, path)
    IN  /\ _g # "undefined"
        /\ _rootOffset # Undefined
        /\ UNCHANGED registry
        /\ Len(r.fs) <= MaxFilters
        /\ filters' = r.fs
        /\ Draw(_g, "onClick", path, r, first)
        /\ UNCHANGED <<data, _conf>>

\* onClick(d) with d.path = path.  The handler is bound to the slices a
\* completed draw created, so a click needs a rendered chart with a completed
\* draw.  redrawGroup redraws the charts of the group, this chart among them.
onClick(path) ==
    LET first == IF last.op = "onClick" /\ ~last.ignored /\ last.path = path
                 THEN << last.pre >> ELSE <<>>
    IN
    /\ _g # "undefined"
    /\ _rootOffset # Undefined
    /\ UNCHANGED registry
    /\ IF _g = _emptyCssClass
       THEN /\ last' = Op("onClick", path, TRUE, NoEffect, "none", first)
            /\ UNCHANGED <<filters, _g, data, _conf, _computedRadius, _rootOffset,
                           _relativeRingSizes, slices>>
       ELSE LET r == reconcile(filters, path)
            IN  /\ Len(r.fs) <= MaxFilters
                /\ filters' = r.fs
                /\ IF CountEv(r.log, "redrawGroup") > 0
                   THEN Draw(_g, "onClick", path, r, first)
                   ELSE /\ last' = Op("onClick", path, FALSE, r, "none", first)
                        /\ UNCHANGED <<_g, _computedRadius, _rootOffset, _relativeRingSizes,
                                       slices>>
                /\ UNCHANGED <<data, _conf>>

\* legendables(): one legend item per record, named by the record's key.
legendables == { [name |-> data[i].key, data |-> data[i]._value] : i \in 1..Len(data) }

\* legendToggle(d): this.onClick({ key: d.name, others: d.others })
legendToggle(d) == onClick(d.name)

(***************************************************************************)
(* Spec: the click/toggle state machine.  The chart is drawn over records  *)
(* whose values are all 0 (the empty state) and over a two-ring tree,      *)
(* under the default policy and under a custom policy whose three portions *)
(* do not fit a two-ring tree.                                             *)
(***************************************************************************)
ClickDatasets == { ZeroRecords, TwoRings }
ClickRingSizes == { defaultRingSizes, relativeRingSizes("tenth_three_six") }

Init == \E list \in ClickDatasets : InitChart(list)

Next ==
    \/ _doRender
    \/ _doRedraw
    \/ \E list \in ClickDatasets : setData(list)
    \/ \E ringSizes \in ClickRingSizes : configure(ringSizes)
    \/ \E path \in Paths : filterApi(path)
    \/ \E path \in Paths : onClick(path)

Spec == Init /\ [][Next]_vars

(***************************************************************************)
(* SpecClicks: the filters changed by clicks alone, on the slices and on   *)
(* the legend, from the empty filter set of a new chart.                   *)
(***************************************************************************)
InitClicks == \E list \in ClickDatasets : InitChart(list)

NextClicks ==
    \/ _doRender
    \/ _doRedraw
    \/ \E list \in ClickDatasets : setData(list)
    \/ \E ringSizes \in ClickRingSizes : configure(ringSizes)
    \/ \E path \in Paths : onClick(path)
    \/ \E d \in legendables : legendToggle(d)

SpecClicks == InitClicks /\ [][NextClicks]_vars

(***************************************************************************)
(* SpecRings: the draw cycle under every ring-size policy and data set,    *)
(* without filters.                                                        *)
(***************************************************************************)
InitRings == \E list \in Datasets : InitChart(list)

NextRings ==
    \/ _doRender
    \/ _doRedraw
    \/ \E list \in Datasets : setData(list)
    \/ \E ringSizes \in RingSizeSpecs : configure(ringSizes)

SpecRings == InitRings /\ [][NextRings]_vars

(***************************************************************************)
(* SpecRadius: the draw cycle over trees of one, two and three rings under *)
(* relative ring sizes (equal, fixed portions, portions summing to 1 plus  *)
(* the epsilon, a leading portion of 0), with radius, inner radius and     *)
(* chart size configured.                                                  *)
(***************************************************************************)
RadiusDatasets == { OneRing, TwoRings, ThreeRings }
RadiusRingSizes ==
    { relativeRingSizes(fn) : fn \in { "equal", "tenth_three_six", "halves_eps", "zero_one" } }
\* radius (0: none given), inner radius and size: no radius, a radius below
\* half the smaller side, above it, and equal to it.
RadiusConfs ==
    { <<0, 0, <<200, 100>>>>, <<20, 10, <<200, 100>>>>, <<60, 10, <<200, 100>>>>,
      <<40, 0, <<80, 120>>>> }

InitRadius == \E list \in RadiusDatasets : InitChart(list)

NextRadius ==
    \/ _doRender
    \/ _doRedraw
    \/ \E list \in RadiusDatasets : setData(list)
    \/ \E ringSizes \in RadiusRingSizes : configure(ringSizes)
    \/ \E c \in RadiusConfs : configureRadius(c[1], c[2], c[3])

SpecRadius == InitRadius /\ [][NextRadius]_vars

(***************************************************************************)
(* SpecTree: the hierarchy builder and the partition, run by the draws of  *)
(* a chart over every bounded record collection under the default policy.  *)
(***************************************************************************)
InitTree == \E list \in TreeLists \cup { UsEu, ThreeRings } : InitChart(list)

NextTree ==
    \/ _doRender
    \/ _doRedraw

SpecTree == InitTree /\ [][NextTree]_vars

(***************************************************************************)
(* SpecRegistry: the calls on the chart registry, with group names left    *)
(* out, empty, ordinary, equal to the default name, and equal to the name  *)
(* of a member of Object.prototype.                                        *)
(***************************************************************************)
GroupArgs ==
    { Missing, Name(""), Name(DEFAULT_CHART_GROUP), Name("g1"), Name("g2"),
      Name("constructor") }

InitRegistry == InitChart(NoRecords)

NextRegistry ==
    \/ \E group \in GroupArgs : CallChartGroup(group)
    \/ \E c \in Charts : CallHas(c)
    \/ \E group \in GroupArgs : CallClear(group)
    \/ \E group \in GroupArgs : CallList(group)
    \/ \E group \in GroupArgs, c \in Charts : CallRegister(group, c)

SpecRegistry == InitRegistry /\ [][NextRegistry]_vars

(***************************************************************************)
(* SpecNumbers: isInteger, isFloat and printSingleValue applied to the     *)
(* numbers of Numbers.                                                     *)
(***************************************************************************)
InitNumbers == InitChart(NoRecords)

NextNumbers ==
    \/ \E n \in Numbers : CallIsInteger(n)
    \/ \E n \in Numbers : CallIsFloat(n)
    \/ \E n \in Numbers : CallPrintSingleValue(n)

SpecNumbers == InitNumbers /\ [][NextNumbers]_vars

(***************************************************************************)
(* Properties                                                              *)
(***************************************************************************)
IsPrefix(p, q) == Len(p) <= Len(q) /\ SubSeq(q, 1, Len(p)) = p
Comparable(p, q) == IsPrefix(p, q) \/ IsPrefix(q, p)
ProperPrefix(p, q) == IsPrefix(p, q) /\ p # q

\* The last handler was an onClick that passed the empty-state guard.
Clicked == last.op = "onClick" /\ ~last.ignored

\* C1: on a chart whose last draw had data, onClick(P) removes exactly the
\* active filters that are a prefix of P or have P as a prefix, keeps every
\* other filter, and adds a filter for P iff none of the removed ones was
\* identical to P.
C1_ClickRemovesRelatedAddsUnlessExact ==
    [][ (last'.op = "onClick" /\ _g \notin {"undefined", _emptyCssClass}) =>
            LET P == last'.path
                S == Range(filters)
                related == { F \in S : Comparable(F, P) }
            IN  /\ Range(last'.removed) = related
                /\ Range(filters') = (S \ related) \cup (IF P \in related THEN {} ELSE {P})
                /\ last'.exactMatch = (P \in related)
                /\ Cardinality(Range(filters')) = Len(filters') ]_vars

\* A click of A/B that found the ancestor A, the descendant A/B/D and the
\* unrelated A/C: both relatives removed, A/C kept, A/B added.
C1_Witness ==
    /\ Clicked
    /\ last.path = <<"A", "B">>
    /\ Range(last.pre) = { <<"A">>, <<"A", "B", "D">>, <<"A", "C">> }
    /\ Range(last.removed) = { <<"A">>, <<"A", "B", "D">> }
    /\ Range(filters) = { <<"A", "C">>, <<"A", "B">> }

\* C2 as stated: whenever P is clicked and then clicked again, the active
\* filter set is back to what the first click found.
C2_Original ==
    (last.op = "onClick" /\ last.first # <<>>) =>
        Range(filters) = Range(last.first[1])

\* C2 as amended: when both clicks are processed (the chart is not in the
\* empty state) and the first click found no proper ancestor and no proper
\* descendant of P among the active filters, the second click of P restores
\* the set of active filters the first click found.
C2_ToggleTwiceRestores ==
    (Clicked /\ last.first # <<>>
      /\ \A F \in Range(last.first[1]) : Comparable(F, last.path) => F = last.path) =>
        Range(filters) = Range(last.first[1])

\* A/B clicked twice on the filters {A/C, A/B}: off, then on again.
C2_Witness ==
    /\ Clicked
    /\ last.path = <<"A", "B">>
    /\ last.first # <<>>
    /\ Range(last.first[1]) = { <<"A", "C">>, <<"A", "B">> }
    /\ Range(last.pre) = { <<"A", "C">> }
    /\ Range(filters) = { <<"A", "C">>, <<"A", "B">> }

\* C3 as stated: whenever an active filter A is a proper prefix of the
\* clicked path P and no active filter equals P, after onClick(P) the filter
\* A is gone and P is active (from {A} a click of A/B yields exactly {A/B},
\* exactMatch false).
C3_Original ==
    (last.op = "onClick"
      /\ last.path \notin Range(last.pre)
      /\ \E A \in Range(last.pre) : ProperPrefix(A, last.path)) =>
        /\ last.path \in Range(filters)
        /\ \A A \in Range(last.pre) : ProperPrefix(A, last.path) => A \notin Range(filters)
        /\ ~last.exactMatch
        /\ (last.pre = << <<"A">> >> /\ last.path = <<"A", "B">>)
                => filters = << <<"A", "B">> >>

\* C3 as amended: the same, for a click on a chart that is not in the empty
\* state.
C3_DrillInReplaces ==
    (Clicked
      /\ last.path \notin Range(last.pre)
      /\ \E A \in Range(last.pre) : ProperPrefix(A, last.path)) =>
        /\ last.path \in Range(filters)
        /\ \A A \in Range(last.pre) : ProperPrefix(A, last.path) => A \notin Range(filters)
        /\ ~last.exactMatch
        /\ (last.pre = << <<"A">> >> /\ last.path = <<"A", "B">>)
                => filters = << <<"A", "B">> >>

C3_Witness ==
    /\ Clicked
    /\ last.pre = << <<"A">> >>
    /\ last.path = <<"A", "B">>
    /\ filters = << <<"A", "B">> >>
    /\ ~last.exactMatch

\* C4 as stated, for one or more active filters: whenever every active
\* filter is a proper descendant of the clicked path P, after onClick(P) the
\* active filter set is exactly {P}.
C4_Original ==
    (last.op = "onClick"
      /\ last.pre # <<>>
      /\ \A F \in Range(last.pre) : ProperPrefix(last.path, F)) =>
        filters = << last.path >>

\* C4 as amended: the same, for any number of active filters and a click
\* on a chart that is not in the empty state.
C4_CollapseToAncestor ==
    (Clicked
      /\ \A F \in Range(last.pre) : ProperPrefix(last.path, F)) =>
        filters = << last.path >>

C4_Witness ==
    /\ Clicked
    /\ Range(last.pre) = { <<"A", "B">>, <<"A", "C">> }
    /\ Len(last.pre) = 2
    /\ last.path = <<"A">>
    /\ filters = << <<"A">> >>

\* C5 as stated: if an active filter is identical to the clicked path P,
\* then after onClick(P) neither P nor any path below P is filtered, and no
\* filter is added.
C5_Original ==
    (last.op = "onClick" /\ last.path \in Range(last.pre)) =>
        /\ \A Q \in Paths : IsPrefix(last.path, Q) => ~_isPathFiltered(filters, Q)
        /\ Range(filters) \subseteq Range(last.pre)

\* C5 as amended: the same, for a click on a chart that is not in the empty
\* state.
C5_PureToggleOff ==
    (Clicked /\ last.path \in Range(last.pre)) =>
        /\ \A Q \in Paths : IsPrefix(last.path, Q) => ~_isPathFiltered(filters, Q)
        /\ Range(filters) \subseteq Range(last.pre)
        /\ last.exactMatch

\* A/B toggled off while its ancestor A and its descendant A/B/D were active.
C5_Witness ==
    /\ Clicked
    /\ last.path = <<"A", "B">>
    /\ Range(last.pre) = { <<"A">>, <<"A", "B">>, <<"A", "B", "D">> }
    /\ filters = <<>>

\* C6: every onClick on a chart whose last draw had data calls redrawGroup
\* exactly once, whatever it removes and whether or not it adds a filter.
C6_OneRedrawPerClick ==
    Clicked => CountEv(last.log, "redrawGroup") = 1

\* A click that removed two filters and added one, with its single redraw.
C6_Witness ==
    /\ Clicked
    /\ Len(last.removed) = 2
    /\ ~last.exactMatch
    /\ CountEv(last.log, "filtered") = 3
    /\ CountEv(last.log, "redrawGroup") = 1

\* C7: every click reconciliation emits the "filter changed" notification
\* exactly once.
C7_Original ==
    Clicked => CountEv(last.log, "filtered") = 1

\* C8: an onClick that ends by raising an error leaves the active filters
\* as they were before the click.
C8_Original ==
    (last.op = "onClick" /\ last.thrown # "none") => filters = last.pre

\* The last handler ran _drawChart.
Drawn == last.op \in {"render", "redraw"} \/ Clicked

\* The ring count of the tree the last draw partitioned: the longest key of
\* the records, 0 in the empty state.
RingCount ==
    IF dataSum(data) = 0 THEN 0
    ELSE CHOOSE n \in { Len(data[i].key) : i \in 1..Len(data) } :
            \A i \in 1..Len(data) : Len(data[i].key) <= n

\* The three requirements on the result of the caller's function, for the
\* ring count n: an array, of n values, summing to 1 within the epsilon.
MeetsRequirements(res, n) ==
    /\ res.isArray
    /\ Len(res.vals) = n
    /\ SumSeq([i \in 1..Len(res.vals) |-> res.vals[i].u]) = One
    /\ SumSeq([i \in 1..Len(res.vals) |-> res.vals[i].e]) \in
            (0 - NEGLIGIBLE_NUMBER)..NEGLIGIBLE_NUMBER

\* C9: under a relativeRingSizes(fn) policy every draw raises a
\* BadArgumentException when fn's result is not an array, or not of ring
\* count length, or sums to something farther from 1 than the epsilon; it
\* raises nothing when the three requirements are met, and then the draw
\* keeps that result.
C9_RelativeRingSizesValidated ==
    (Drawn /\ _conf.ringSizes.kind = "relative") =>
        LET res == applyFn(_conf.ringSizes.fn, RingCount)
        IN  IF MeetsRequirements(res, RingCount)
            THEN last.thrown = "none" /\ _relativeRingSizes = res.vals
            ELSE last.thrown \in { NotAnArray, SumNotOne, LengthMismatch }

\* A draw of the two-ring tree refused for two portions whose sum is off by
\* twice the epsilon.
C9_Witness ==
    /\ Drawn
    /\ data = TwoRings
    /\ _conf.ringSizes = relativeRingSizes("halves_2eps")
    /\ last.thrown = SumNotOne

\* C10: a result whose length differs from the ring count is reported as
\* the length mismatch; stated for the three-ring tree the claim names:
\* [0.5, 0.6] raises "number of values must match number of rings",
\* [0.3, 0.3, 0.3] raises "portions must add up to 1".
C10_Original ==
    (Drawn /\ _conf.ringSizes.kind = "relative" /\ data = ThreeRings) =>
        LET res == applyFn(_conf.ringSizes.fn, RingCount)
        IN  /\ (res.isArray /\ Len(res.vals) # RingCount) => last.thrown = LengthMismatch
            /\ _conf.ringSizes.fn = "three_tenths" => last.thrown = SumNotOne

\* C11: a draw over zero records, or over records whose values sum to 0,
\* raises nothing and leaves a defined rootOffset; stated for the policies
\* defaultRingSizes() and equalRingSizes().
C11_Original ==
    (Drawn /\ dataSum(data) = 0
      /\ _conf.ringSizes \in { defaultRingSizes, equalRingSizes }) =>
        /\ last.thrown = "none"
        /\ _rootOffset # Undefined
        /\ _rootOffset.den # 0

\* C12: the node sequence a completed draw binds to the slices never holds
\* the synthetic root, and is empty when the record values sum to 0.
C12_Original ==
    (Drawn /\ last.thrown = "none") =>
        /\ \A i \in 1..Len(slices) : slices[i].node # 0
        /\ dataSum(data) = 0 => slices = <<>>

\* C19: after every draw the chart carries the empty flag iff the record
\* values sum to 0; stated for the policies defaultRingSizes() and
\* equalRingSizes().
C19_Original ==
    (Drawn /\ _conf.ringSizes \in { defaultRingSizes, equalRingSizes }) =>
        ((_g = _emptyCssClass) <=> (dataSum(data) = 0))

\* The tree toHierarchy builds from the chart's records.
BuiltTree == toHierarchy(data, [d \in Range(data) |-> d._value])

\* The tree _drawChart partitions: the tree of the records, or the tree of
\* no records when the values sum to 0.
DrawnTree ==
    IF dataSum(data) # 0 THEN BuiltTree ELSE toHierarchy(<<>>, [d \in {} |-> 0])

\* The nodes _partitionNodes lays out for that tree, the root first.
Partitioned == _partitionNodes(DrawnTree, _conf.ringSizes, _computedRadius).nodes

\* The nodes of a partition as a set: path, aggregated value, interval.
NodeSet(nodes) ==
    { [path |-> nodes[i].path, value |-> nodes[i].value,
       x0 |-> nodes[i].x0, x1 |-> nodes[i].x1] : i \in 1..Len(nodes) }

\* C13: for every two orders of the same records toHierarchy followed by
\* _partitionNodes ends normally and gives the same set of nodes: paths,
\* aggregated values and angular intervals; stated for the records of a
\* draw among which one key is a proper prefix of another.
C13_Original ==
    (Drawn /\ dataSum(data) # 0
      /\ \E i, j \in 1..Len(data) : ProperPrefix(data[i].key, data[j].key)) =>
        /\ last.thrown = "none"
        /\ \A r \in Reorderings(data) :
              LET t == toHierarchy(r, [d \in Range(r) |-> d._value])
              IN  /\ ~t.thrown
                  /\ NodeSet(Tail(_partitionNodes(t, _conf.ringSizes,
                                                  _computedRadius).nodes))
                        = NodeSet(slices)

\* C14: in every tree toHierarchy returns, every node has a non-empty path,
\* which is the path of its parent followed by its own key (the path of
\* the root, node 0, counting as empty).
C14_PathIsParentPathPlusKey ==
    LET tree == BuiltTree
    IN  (Drawn /\ ~tree.thrown) =>
            \A n \in 1..Len(tree.nodes) :
                LET node == tree.nodes[n]
                    parentPath == IF node.parent = 0 THEN <<>>
                                  ELSE tree.nodes[node.parent].path
                IN  /\ node.path # <<>>
                    /\ node.path = Append(parentPath, node.key)

\* A drawn tree with the node A/B/D below A/B below A.
C14_Witness ==
    /\ Drawn
    /\ last.thrown = "none"
    /\ \E i, j \in 1..Len(slices) :
          /\ slices[i].path = <<"A", "B", "D">>
          /\ slices[i].parent = slices[j].node
          /\ slices[j].path = <<"A", "B">>

\* C15: in every tree toHierarchy returns, the children of one node have
\* pairwise distinct keys; stated for the trees a draw builds.
C15_Original ==
    LET tree == BuiltTree
    IN  (Drawn /\ dataSum(data) # 0 /\ ~tree.thrown) =>
            \A a, b \in 1..Len(tree.nodes) :
                (a # b /\ tree.nodes[a].parent = tree.nodes[b].parent)
                    => tree.nodes[a].key # tree.nodes[b].key

\* Node n is node a or lies below it.
RECURSIVE Below(_, _, _)
Below(nodes, n, a) ==
    IF n = a THEN TRUE
    ELSE IF n = 0 THEN FALSE
    ELSE Below(nodes, nodes[n].parent, a)

\* The sum of the values of the leaves at or below node a.
LeafTotal(nodes, a) ==
    LET leaves == SelectSeq([i \in 1..Len(nodes) |-> i],
                            LAMBDA i : nodes[i].leaf /\ Below(nodes, i, a))
    IN  SumSeq([i \in 1..Len(leaves) |-> nodes[leaves[i]].value])

\* C16: after toHierarchy and the summation of _partitionNodes the value of
\* every internal node, the root included, is the sum of the values of the
\* leaves below it; the nodes bound to the slices carry these values.
C16_InternalValueIsLeafTotal ==
    LET tree == DrawnTree
        nodes == Partitioned
    IN  (Drawn /\ ~tree.thrown) =>
            /\ \A i \in 1..Len(nodes) :
                  ~nodes[i].leaf => nodes[i].value = LeafTotal(tree.nodes, nodes[i].node)
            /\ (last.thrown = "none" /\ dataSum(data) # 0) => slices = Tail(nodes)

\* A drawn tree whose node A sums the leaves A/B = 1 and A/C = 2.
C16_Witness ==
    /\ Drawn
    /\ last.thrown = "none"
    /\ data = << Rec(<<"A", "B">>, 1), Rec(<<"A", "C">>, 2) >>
    /\ slices[1].path = <<"A">>
    /\ slices[1].value = 3

\* The children of node p in the order the partition lays them out.
ChildrenInOrder(nodes, p) == SelectSeq(nodes, LAMBDA c : c.parent = p.node)

C18_WidthProportionalKeysAscending ==
    (Drawn /\ last.thrown = "none" /\ dataSum(data) > 0) =>
        /\ \A i \in 1..Len(slices) :
              Minus(slices[i].x1, slices[i].x0)
                = Over(Times(slices[i].value, TwoPi), dataSum(data))
        /\ \A i, j \in 1..Len(slices) :
              (i < j /\ slices[i].parent = slices[j].parent) =>
                  /\ slices[i].key = slices[j].key
                        \/ \E a, b \in 1..Len(KeyOrder) :
                              /\ a < b
                              /\ KeyOrder[a] = slices[i].key
                              /\ KeyOrder[b] = slices[j].key
                  /\ ~Less(slices[j].x0, slices[i].x1)
        /\ data = UsEu =>
              /\ Partitioned[1].value = 18
              /\ [i \in 1..Len(slices) |->
                    << slices[i].path, slices[i].x0, slices[i].x1 >>]
                  = << << <<"EU">>, Rat(0, 1), Rat(1, 6) >>,
                       << <<"US">>, Rat(1, 6), Rat(1, 1) >>,
                       << <<"EU", "FR">>, Rat(0, 1), Rat(1, 6) >>,
                       << <<"US", "CA">>, Rat(1, 6), Rat(13, 18) >>,
                       << <<"US", "NY">>, Rat(13, 18), Rat(1, 1) >> >>

\* The records of the example, drawn.
C18_Witness ==
    /\ Drawn
    /\ last.thrown = "none"
    /\ data = UsEu
    /\ Len(slices) = 5
    /\ slices[2].value = 15

\* C20: toHierarchy returns a tree with exactly one leaf for each record,
\* which carries the record as data, the record's accessor value and the
\* record's key as path; no other leaf exists, so the values of the leaves
\* sum to the values of the records.
C20_OneLeafPerRecord ==
    LET tree == BuiltTree
    IN  (Drawn /\ ~tree.thrown) =>
        LET nodes == tree.nodes
            leaves == { n \in 1..Len(nodes) : nodes[n].leaf }
        IN  /\ \A i \in 1..Len(data) :
                  Cardinality({ n \in leaves : nodes[n].data = i }) = 1
            /\ \A n \in leaves :
                  /\ nodes[n].data \in 1..Len(data)
                  /\ nodes[n].value = data[nodes[n].data]._value
                  /\ nodes[n].path = data[nodes[n].data].key
            /\ Cardinality(leaves) = Len(data)
            /\ LeafTotal(nodes, 0) = dataSum(data)

\* Two records of the same key A, drawn as two leaves A.
C20_Witness ==
    /\ Drawn
    /\ last.thrown = "none"
    /\ data = << Rec(<<"A">>, 1), Rec(<<"A">>, 2) >>
    /\ Len(slices) = 2
    /\ slices[1].path = <<"A">> /\ slices[1].data = 1
    /\ slices[2].path = <<"A">> /\ slices[2].data = 2

(***************************************************************************)
(* The chart registry                                                      *)
(***************************************************************************)
\* The group a name denotes: the default group for a name left out or empty.
Denoted(group) == IF Falsy(group) THEN DEFAULT_CHART_GROUP ELSE group.name

\* The ChartGroup objects registered under some name.
Registered(map) == { map[k] : k \in { n \in DOMAIN map : map[n] # 0 } }

\* C21: chartGroup(name) is find-or-create: it returns a ChartGroup object,
\* the one registered under the name (the default name for a name left out
\* or empty) when there is one and a new one, registered under that name,
\* otherwise; no call but a clear unregisters or replaces a group, so two
\* calls with the same name and no clear in between return the same object;
\* two distinct names never hold the same ChartGroup; list(name) returns the
\* charts of the group chartGroup(name) returns.
C21_Original ==
    /\ call.op \in {"chartGroup", "list"} =>
        /\ call.thrown = "none"
        /\ Denoted(call.arg) \in DOMAIN _chartMap
        /\ _chartMap[Denoted(call.arg)] # 0
        /\ \A k \in DOMAIN _chartMap \ {Denoted(call.arg)} :
               _chartMap[k] = call.before.map[k]
        /\ IF call.before.map[Denoted(call.arg)] # 0
           THEN _chartMap = call.before.map /\ Len(_charts) = Len(call.before.heap)
           ELSE _chartMap[Denoted(call.arg)] = Len(call.before.heap) + 1
        /\ call.op = "chartGroup" =>
               call.ret = ChartGroupRef(_chartMap[Denoted(call.arg)])
        /\ call.op = "list" =>
               call.ret = groupList(_charts, _chartMap[Denoted(call.arg)])
    /\ call.op \in {"has", "register"} =>
        \A k \in DOMAIN _chartMap :
            call.before.map[k] # 0 => _chartMap[k] = call.before.map[k]
    /\ \A k1, k2 \in DOMAIN _chartMap :
        k1 # k2 /\ _chartMap[k1] # 0 => _chartMap[k1] # _chartMap[k2]

\* C22: clear(g) with a group name g empties and unregisters group g and
\* leaves every other group, registered or not, with its charts; it changes
\* nothing when no group g exists.  clear() with no group empties every
\* registered group and unregisters it: after it has(c) is false for every
\* chart c and list(n) is empty for every name n.
C22_Original ==
    call.op = "clear" =>
        /\ call.thrown = "none"
        /\ IF ~Falsy(call.arg)
           THEN LET g == call.arg.name
                    was == IF g \in DOMAIN _chartMap THEN call.before.map[g] ELSE 0
                IN  /\ \A k \in DOMAIN _chartMap \ {g} : _chartMap[k] = call.before.map[k]
                    /\ g \in DOMAIN _chartMap => _chartMap[g] = 0
                    /\ \A id \in 1..Len(_charts) :
                           _charts[id] = IF id = was THEN <<>> ELSE call.before.heap[id]
                    /\ was = 0 => _chartMap = call.before.map /\ _charts = call.before.heap
           ELSE /\ \A k \in DOMAIN _chartMap : _chartMap[k] = 0
                /\ \A id \in 1..Len(_charts) :
                       _charts[id] = IF id \in Registered(call.before.map)
                                     THEN <<>> ELSE call.before.heap[id]
                /\ \A c \in Charts : ~has(_chartMap, _charts, c)
                /\ \A n \in { Missing, Name(""), Name("g1"), Name("constructor") } :
                       LET charts == listOf(_chartMap, _charts, n)
                       IN  charts.thrown = "none" /\ charts.ret = <<>>

(***************************************************************************)
(* The number tests                                                        *)
(***************************************************************************)
\* The number has an integer value.
IntegerValued(n) == n.kind = "finite" /\ ~n.half

\* C23: for every finite number n, isInteger(n) is true exactly when n has
\* an integer value and isFloat(n) is true exactly when it has not, integers
\* of magnitude 2^31 and above included.
C23_Original ==
    /\ call.op = "isInteger" /\ call.arg.kind = "finite" =>
           call.ret = IntegerValued(call.arg)
    /\ call.op = "isFloat" /\ call.arg.kind = "finite" =>
           call.ret = ~IntegerValued(call.arg)

(***************************************************************************)
(* Clicks from the empty filter set                                        *)
(***************************************************************************)
\* C24: starting from no active filter, after any sequence of clicks no two
\* active filters are identical and none is a proper prefix of another.
C24_FiltersFormAntichain ==
    \A i, j \in 1..Len(filters) :
        i # j => filters[i] # filters[j] /\ ~ProperPrefix(filters[i], filters[j])

\* Two filters are active after a click that removed a filter and added one.
C24_Witness ==
    /\ Clicked
    /\ Len(filters) = 2
    /\ last.removed # <<>>
    /\ ~last.exactMatch

\* C25: a click, on a slice or on the legend, made while the chart carries
\* the empty-state class of its most recent draw changes no active filter,
\* emits no notification and redraws nothing.
C25_EmptyStateClickIgnored ==
    [][(_g = _emptyCssClass /\ last'.op = "onClick") =>
           /\ filters' = filters
           /\ last'.log = <<>>
           /\ last'.removed = <<>>
           /\ UNCHANGED <<_g, slices, _computedRadius, _rootOffset, _relativeRingSizes>>]_vars

\* A click was ignored in the empty state while a filter was active, one
\* that covers the path clicked.
C25_Witness ==
    /\ last.op = "onClick"
    /\ last.ignored
    /\ _g = _emptyCssClass
    /\ dataSum(data) = 0
    /\ \E i \in 1..Len(filters) : Comparable(filters[i], last.path)

\* C26: within one click every filter the click affects (the active filters
\* that are the path, a prefix of it or an extension of it) is removed
\* first, then the path is added unless it was active, and redrawGroup comes
\* last and once: the redraw observes the final active set, which holds no
\* affected filter but the path added.
C26_RedrawAfterRemovalsAndAddition ==
    Clicked =>
        LET log == last.log
            affected == SelectSeq(last.pre, LAMBDA f : Comparable(f, last.path))
            n == Len(affected)
            added == IF hasFilter(last.pre, last.path) THEN 0 ELSE 1
        IN  /\ Len(log) = n + added + 1
            /\ \A i \in 1..n : log[i] = filteredEvent(affected[n + 1 - i])
            /\ added = 1 => log[n + 1] = filteredEvent(last.path)
            /\ log[Len(log)].ev = "redrawGroup"
            /\ log[Len(log)].filters = filters
            /\ \A i \in 1..n :
                   hasFilter(log[Len(log)].filters, affected[i]) =>
                       added = 1 /\ affected[i] = last.path
            /\ hasFilter(log[Len(log)].filters, last.path) <=> added = 1

\* A click removed an ancestor and added the path before the one redraw.
C26_Witness ==
    /\ Clicked
    /\ Len(last.removed) >= 1
    /\ ~last.exactMatch
    /\ Len(last.log) = Len(last.removed) + 2
    /\ last.log[Len(last.log)].ev = "redrawGroup"
    /\ hasFilter(filters, last.path)

(***************************************************************************)
(* Draws that throw                                                        *)
(***************************************************************************)
\* C27: a draw in which _partitionNodes raises a ring-size validation error
\* leaves _rootOffset, _relativeRingSizes and the empty-state flag as the
\* last successful draw left them (no handler but a draw touches them);
\* stated for the draws of records with values.
C27_Original ==
    [][(/\ last'.op \in {"render", "redraw"}
        /\ last'.thrown \in {NotAnArray, SumNotOne, LengthMismatch}
        /\ dataSum(data) # 0) =>
           /\ _rootOffset' = _rootOffset
           /\ _relativeRingSizes' = _relativeRingSizes
           /\ (_g' = _emptyCssClass) <=> (_g = _emptyCssClass)]_vars

(***************************************************************************)
(* Radii                                                                   *)
(***************************************************************************)
\* Two fractions of the same value.
Same(a, b) == a.num * b.den = b.num * a.den

\* The draw ended without an error, of records with values, under relative
\* ring sizes: the slices, _rootOffset and _relativeRingSizes are its own.
DrawnRelative ==
    /\ last.op \in {"render", "redraw"}
    /\ last.thrown = "none"
    /\ _conf.ringSizes.kind = "relative"
    /\ dataSum(data) # 0

\* The inner and the outer radius of the arc of slice d.
InnerRadiusOf(d) ==
    scaleInnerRadius(_conf, _relativeRingSizes, _rootOffset, _computedRadius, d)
OuterRadiusOf(d) ==
    scaleOuterRadius(_conf, _relativeRingSizes, _rootOffset, _computedRadius, d)

\* r0 + (R - r0) * (s_1 + ... + s_k)
RingEdge(k) ==
    FinePlus(Rat(_conf.innerRadius, 1),
             FineTimes(Minus(_computedRadius, Rat(_conf.innerRadius, 1)),
                       FineOfPortion(portionsSum(SubSeq(_relativeRingSizes, 1, k)))))

\* The fine number of the value of a fraction.
Exactly(r) == Fine(Norm(r.num, r.den), Rat(0, 1))

C29_EqualRingsEquallyWide ==
    (/\ last.op \in {"render", "redraw"}
     /\ _conf.ringSizes = equalRingSizes
     /\ dataSum(data) # 0) =>
        LET n == RingCount
            res == applyFn("equal", n)
            width == Div(Minus(_computedRadius, Rat(_conf.innerRadius, 1)), Rat(n, 1))
        IN  /\ n >= 1
            /\ MeetsRequirements(res, n)
            /\ last.thrown = "none"
            /\ Len(_relativeRingSizes) = n
            /\ \A k \in 1..n :
                   /\ _relativeRingSizes[k] = res.vals[k]
                   /\ FineOfPortion(_relativeRingSizes[k]) = Exactly(Rat(1, n))
            /\ \A i \in 1..Len(slices) :
                   OuterRadiusOf(slices[i]) = FinePlus(width, InnerRadiusOf(slices[i]))

\* A draw of the three-ring tree under equalRingSizes() with an inner radius:
\* a slice of the third ring ends at the computed radius.
C29_Witness ==
    /\ last.op \in {"render", "redraw"}
    /\ last.thrown = "none"
    /\ _conf.ringSizes = equalRingSizes
    /\ data = ThreeRings
    /\ _conf.innerRadius = 10
    /\ \E i \in 1..Len(slices) :
           /\ Len(slices[i].path) = 3
           /\ OuterRadiusOf(slices[i]) = Exactly(_computedRadius)

\* C30: after every draw, one that throws included, the computed radius is
\* the radius configured when one is given and it is below half the smaller
\* side of the chart, and half the smaller side otherwise; it never exceeds
\* half the smaller side.
C30_ComputedRadiusClamped ==
    last.op \in {"render", "redraw"} =>
        LET side == Min2(_conf.width, _conf.height)
        IN  /\ IF _conf.radius # 0 /\ 2 * _conf.radius < side
               THEN Same(_computedRadius, Rat(_conf.radius, 1))
               ELSE Same(_computedRadius, Rat(side, 2))
            /\ 2 * _computedRadius.num <= side * _computedRadius.den

\* A draw with a radius configured that is larger than half the smaller
\* side.
C30_Witness ==
    /\ last.op \in {"render", "redraw"}
    /\ _conf.radius = 60
    /\ Min2(_conf.width, _conf.height) = 100
    /\ Same(_computedRadius, Rat(50, 1))

====
